---- MODULE Spec2Model ----
(***************************************************************************)
(* A model of testsight: the module index, the per-module import/export    *)
(* extraction, the reverse-dependency graph, the breadth-first impact      *)
(* resolver and the lexical fallback matcher                               *)
(* (src/src/testsight/indexer.py, resolver.py, config.py).                 *)
(*                                                                         *)
(* Text is modelled by TLA+ strings, which TLC treats as sequences of      *)
(* characters (Len, SubSeq, \o).  A path is the tuple of its components,   *)
(* as pathlib's Path.parts gives them: <<"/", "repo", "tests", "t.py">>.   *)
(***************************************************************************)
EXTENDS Naturals, Integers, Sequences, FiniteSets, TLC

VARIABLES
    config,            \* RunnerConfig: the one configuration value of the run
    contents,          \* the file system: path -> parsed content of the file
    index,             \* ModuleIndex: [modules, by_path]
    module_data,       \* ImpactAnalysis.module_data: module name -> ModuleData
    reverse_imports,   \* ImpactAnalysis.reverse_imports: target -> symbol -> importers
    test_tokens,       \* ImpactResolver.test_tokens: test path -> path tokens
    test_dir_tokens,   \* ImpactResolver.test_dir_tokens: test path -> directory tokens
    changed_paths,     \* the argument of the running resolve call
    staged_tokens,     \* resolve's staged_tokens: the path tokens of each changed path
    staged_dir_tokens, \* resolve's staged_dir_tokens: their directory tokens
    pc,                \* where the resolve call stands
    queue,             \* resolve's deque of <<module, symbol>> entries
    visited,           \* resolve's visited set of <<module, symbol>> pairs
    impacted_modules,  \* resolve's set of impacted module names
    result,            \* the list resolve returns
    tok_call,          \* TokenCollector exercised alone: the call made
    tok_ret            \* ... and the token set it returned

vars == <<config, contents, index, module_data, reverse_imports, test_tokens,
          test_dir_tokens, changed_paths, staged_tokens, staged_dir_tokens,
          pc, queue, visited, impacted_modules, result, tok_call, tok_ret>>

\* What is built once, before any resolve call: the configuration, the files,
\* the index, the analysis and the resolver's token tables.
built == <<config, contents, index, module_data, reverse_imports, test_tokens,
           test_dir_tokens>>

(***************************************************************************)
(* Python values                                                           *)
(***************************************************************************)

\* Python's None where it stands for a symbol: the whole-module sentinel (and
\* an absent asname).  No Python identifier contains '<'.
None == "<None>"

\* The outcome of Path.relative_to when the path is not under the root.
ValueError == <<"<ValueError>">>

Range(s) == {s[i] : i \in 1..Len(s)}

Min(a, b) == IF a <= b THEN a ELSE b

\* The orders in which iterating a Python set may yield its elements.
RECURSIVE Orders(_)
Orders(S) ==
    IF S = {} THEN {<<>>}
    ELSE UNION {{<<x>> \o s : s \in Orders(S \ {x})} : x \in S}

\* The elements of S as a list, in no particular order.
RECURSIVE AnyOrder(_)
AnyOrder(S) ==
    IF S = {} THEN <<>>
    ELSE LET x == CHOOSE y \in S : TRUE IN <<x>> \o AnyOrder(S \ {x})

(***************************************************************************)
(* Characters and strings                                                  *)
(***************************************************************************)

UPPER == "ABCDEFGHIJKLMNOPQRSTUVWXYZ"
LOWER == "abcdefghijklmnopqrstuvwxyz"

\* The characters of the model's file names, in code-point order.
CODE_POINTS ==
    "-./0123456789ABCDEFGHIJKLMNOPQRSTUVWXYZ_abcdefghijklmnopqrstuvwxyz"

Char(s, i) == SubSeq(s, i, i)

Chars(s) == {Char(s, i) : i \in 1..Len(s)}

\* The place of each character of an alphabet in it.
IndexIn(alphabet) ==
    [c \in Chars(alphabet) |-> CHOOSE i \in 1..Len(alphabet) : Char(alphabet, i) = c]

UpperIndex == IndexIn(UPPER)
CodePoint  == IndexIn(CODE_POINTS)

isupper(c) == c \in DOMAIN UpperIndex
LowerChars == Chars(LOWER)

islower(c) == c \in LowerChars

RECURSIVE lower(_)
lower(s) ==
    IF s = "" THEN ""
    ELSE LET c == Char(s, 1)
         IN (IF isupper(c) THEN Char(LOWER, UpperIndex[c]) ELSE c) \o lower(Tail(s))

startswith(s, prefix) ==
    Len(prefix) <= Len(s) /\ SubSeq(s, 1, Len(prefix)) = prefix

endswith(s, suffix) ==
    Len(suffix) <= Len(s) /\ SubSeq(s, Len(s) - Len(suffix) + 1, Len(s)) = suffix

\* str.replace(old, new) for a one-character old.
RECURSIVE replace(_, _, _)
replace(s, old, new) ==
    IF s = "" THEN ""
    ELSE (IF Char(s, 1) = old THEN new ELSE Char(s, 1)) \o replace(Tail(s), old, new)

\* str.split(sep) for a one-character sep: the list of pieces, empty ones kept.
RECURSIVE split(_, _)
split(s, sep) ==
    IF \A i \in 1..Len(s) : Char(s, i) # sep THEN <<s>>
    ELSE LET k == CHOOSE i \in 1..Len(s) :
                     /\ Char(s, i) = sep
                     /\ \A j \in 1..(i - 1) : Char(s, j) # sep
         IN <<SubSeq(s, 1, k - 1)>> \o split(SubSeq(s, k + 1, Len(s)), sep)

\* sep.join(parts)
RECURSIVE join(_, _)
join(sep, parts) ==
    IF parts = <<>> THEN ""
    ELSE IF Len(parts) = 1 THEN parts[1]
    ELSE parts[1] \o sep \o join(sep, Tail(parts))

\* Python's order on strings: by code point, a proper prefix first.
RECURSIVE StrLess(_, _)
StrLess(a, b) ==
    IF b = "" THEN FALSE
    ELSE IF a = "" THEN TRUE
    ELSE LET x == CodePoint[Char(a, 1)]
             y == CodePoint[Char(b, 1)]
         IN IF x # y THEN x < y ELSE StrLess(Tail(a), Tail(b))

\* pathlib's order on paths: the parts compared as lists of strings.
RECURSIVE PathLess(_, _)
PathLess(p, q) ==
    IF q = <<>> THEN FALSE
    ELSE IF p = <<>> THEN TRUE
    ELSE IF p[1] # q[1] THEN StrLess(p[1], q[1])
    ELSE PathLess(Tail(p), Tail(q))

\* Path.relative_to(root): the parts below root, or ValueError.
relative_to(path, root) ==
    IF Len(root) <= Len(path) /\ SubSeq(path, 1, Len(root)) = root
    THEN SubSeq(path, Len(root) + 1, Len(path))
    ELSE ValueError

(***************************************************************************)
(* TokenCollector (resolver.py)                                            *)
(***************************************************************************)

\* The inner loop of _split_token: raw cut at its letter-case boundaries, the
\* pieces case-folded.  start is the index where the current piece began.
RECURSIVE camel_parts(_, _, _)
camel_parts(raw, start, idx) ==
    IF idx > Len(raw) THEN <<lower(SubSeq(raw, start, Len(raw)))>>
    ELSE IF /\ isupper(Char(raw, idx))
            /\ \/ islower(Char(raw, idx - 1))
               \/ (idx + 1 <= Len(raw) /\ islower(Char(raw, idx + 1)))
         THEN <<lower(SubSeq(raw, start, idx - 1))>> \o camel_parts(raw, idx, idx + 1)
         ELSE camel_parts(raw, start, idx + 1)

\* The outer loop of _split_token over token.split("_"), empty pieces skipped.
RECURSIVE split_parts(_)
split_parts(raws) ==
    IF raws = <<>> THEN <<>>
    ELSE (IF raws[1] = "" THEN <<>> ELSE camel_parts(raws[1], 1, 2))
         \o split_parts(Tail(raws))

\* Mutant: the stopword test is left out of the filter.
KeepTokens_by_length(cfg, tokens) ==
    {t \in tokens : Len(t) >= cfg.tokens.minimum_length}

\* The tokens _split_token keeps of a candidate set.
KeepTokens(cfg, tokens) ==
    {t \in tokens : Len(t) >= cfg.tokens.minimum_length
                     /\ t \notin Range(cfg.tokens.stopwords)}

_split_token(cfg, token0) ==
    LET token    == replace(token0, "-", "_")
        parts    == split_parts(split(token, "_"))
        singular == {SubSeq(p, 1, Len(p) - 1) :
                        p \in {q \in Range(parts) : Len(q) > 4 /\ endswith(q, "s")}}
        tokens   == Range(parts) \cup {lower(token)} \cup singular
    IN KeepTokens(cfg, tokens)

\* The parts a path is tokenized by: below the root, else all of them.
token_parts(cfg, path) ==
    IF relative_to(path, cfg.root) = ValueError THEN path
    ELSE relative_to(path, cfg.root)

path_tokens(cfg, path) ==
    UNION {_split_token(cfg, split(part, ".")[1]) : part \in Range(token_parts(cfg, path))}

directory_tokens(cfg, path) ==
    LET parts == token_parts(cfg, path)
    IN UNION {_split_token(cfg, split(parts[i], ".")[1]) : i \in 1..(Len(parts) - 1)}

(***************************************************************************)
(* Configuration (config.py)                                               *)
(***************************************************************************)

DEFAULT_EXCLUDE_DIRS ==
    <<".git", ".hg", ".mypy_cache", ".pytest_cache", ".tox", ".venv",
      "__pycache__", "build", "dist", "node_modules", "venv">>

DEFAULT_GENERIC_TOKENS ==
    <<"api", "apis", "base", "build", "common", "core", "data", "init", "lib",
      "model", "models", "query", "queries", "service", "services", "src",
      "test", "tests", "util", "utils">>

DEFAULT_MINIMUM_LENGTH == 3
DEFAULT_FALLBACK_SCORE == 12

TestNamingRules ==
    [directory_markers |-> <<"tests">>,
     filename_prefixes |-> <<"test_">>,
     filename_suffixes |-> <<"_test.py">>]

TokenConfig(minimum_length, fallback_score, stopwords) ==
    [minimum_length |-> minimum_length,
     fallback_score |-> fallback_score,
     stopwords      |-> stopwords]

RunnerConfig(root, tokens) ==
    [root            |-> root,
     python_suffixes |-> <<".py">>,
     source_roots    |-> <<"src">>,
     exclude_dirs    |-> DEFAULT_EXCLUDE_DIRS,
     naming          |-> TestNamingRules,
     tokens          |-> tokens]

\* TestNamingRules.is_test_file; ValueError when path is not under root.
is_test_file(naming, path, root, suffixes) ==
    LET parts    == relative_to(path, root)
        name     == path[Len(path)]
        in_marked_directory ==
            \E i \in 1..(Len(parts) - 1) : parts[i] \in Range(naming.directory_markers)
        has_prefix   == \E x \in Range(naming.filename_prefixes) : startswith(name, x)
        has_suffix   == \E x \in Range(naming.filename_suffixes) : endswith(name, x)
        extension_ok == \E x \in Range(suffixes) : endswith(name, x)
    IN IF parts = ValueError THEN ValueError
       ELSE IF in_marked_directory THEN (has_prefix \/ has_suffix) /\ extension_ok
       ELSE (has_prefix /\ extension_ok) \/ has_suffix

(***************************************************************************)
(* ModuleIndexer (indexer.py)                                              *)
(***************************************************************************)

ModuleInfo(name, path, package_parts, is_package) ==
    [name |-> name, path |-> path, package_parts |-> package_parts,
     is_package |-> is_package]

\* os.walk is top-down: the files of a directory come before everything in its
\* subdirectories; within one directory the listing order is the file
\* system's, here ascending or descending by name.
RECURSIVE WalkBefore(_, _, _)
WalkBefore(p, q, ascending) ==
    IF p = <<>> \/ q = <<>> THEN p = <<>> /\ q # <<>>
    ELSE IF p[1] = q[1] THEN WalkBefore(Tail(p), Tail(q), ascending)
    ELSE IF Len(p) = 1 /\ Len(q) > 1 THEN TRUE
    ELSE IF Len(q) = 1 /\ Len(p) > 1 THEN FALSE
    ELSE IF ascending THEN StrLess(p[1], q[1]) ELSE StrLess(q[1], p[1])

\* The directory a file is in.
parent(path) == SubSeq(path, 1, Len(path) - 1)

\* The directories directly in directory d: os.walk's dirnames.
dirnames(files, d) ==
    {SubSeq(p, 1, Len(d) + 1) :
        p \in {q \in files : Len(q) > Len(d) + 1 /\ SubSeq(q, 1, Len(d)) = d}}

\* Mutant: dirnames is not pruned, every directory below the root is entered.
walk_dirs_unpruned(cfg, files) ==
    {d \in UNION {{SubSeq(p, 1, k) : k \in 1..(Len(p) - 1)} : p \in files} :
        relative_to(d, cfg.root) # ValueError}

\* os.walk(top), top-down, with iter_python_files taking the excluded names
\* out of dirnames before the walk goes on: the directories entered.
RECURSIVE walk_below(_, _, _)
walk_below(cfg, files, top) ==
    {top} \cup UNION {walk_below(cfg, files, d) :
                        d \in {x \in dirnames(files, top) :
                                 x[Len(x)] \notin Range(cfg.exclude_dirs)}}

\* iter_python_files: the directories os.walk enters from the root.
walk_dirs(cfg, files) == walk_below(cfg, files, cfg.root)

\* iter_python_files: the parts of an entered directory relative to the
\* root, () when it is not under the root.
relative_parts(cfg, d) ==
    IF relative_to(d, cfg.root) = ValueError THEN <<>> ELSE relative_to(d, cfg.root)

\* ModuleIndexer.iter_python_files: the files the walk yields, in walk order.
\* An entered directory with an excluded part is skipped, the others yield
\* their files of a configured suffix.
iter_python_files(cfg, files, ascending) ==
    LET yielded == {p \in files :
                      /\ parent(p) \in walk_dirs(cfg, files)
                      /\ Range(relative_parts(cfg, parent(p))) \cap Range(cfg.exclude_dirs) = {}
                      /\ \E x \in Range(cfg.python_suffixes) : endswith(p[Len(p)], x)}
    IN SortSeq(AnyOrder(yielded), LAMBDA p, q : WalkBefore(p, q, ascending))

\* The first entry of source_roots that parts starts with is stripped, once.
strip_source_root(cfg, parts) ==
    IF parts # <<>> /\ parts[1] \in Range(cfg.source_roots) THEN Tail(parts) ELSE parts

\* The longest non-empty configured suffix filename ends with, or None.
matched_suffix(cfg, filename) ==
    LET matching == {x \in Range(cfg.python_suffixes) : x # "" /\ endswith(filename, x)}
    IN IF matching = {} THEN None
       ELSE CHOOSE x \in matching : \A y \in matching : Len(y) <= Len(x)

\* ModuleIndexer.derive_module_name: the dotted name, None, or ValueError.
derive_module_name(cfg, path) ==
    LET relative == relative_to(path, cfg.root)
        parts    == strip_source_root(cfg, relative)
        filename == parts[Len(parts)]
        suffix   == matched_suffix(cfg, filename)
        named    == IF filename = "__init__.py" THEN SubSeq(parts, 1, Len(parts) - 1)
                    ELSE [parts EXCEPT ![Len(parts)] =
                            SubSeq(filename, 1, Len(filename) - Len(suffix))]
    IN IF relative = ValueError THEN ValueError
       ELSE IF parts = <<>> THEN None
       ELSE IF filename # "__init__.py" /\ suffix = None THEN None
       ELSE IF named = <<>> THEN None
       ELSE IF \E i \in 1..Len(named) : named[i] \in {"", "."} THEN None
       ELSE join(".", named)

\* The ModuleInfo build makes of one path (module is its derived name).
module_info(module, path) ==
    LET is_package == path[Len(path)] = "__init__.py"
        dotted     == split(module, ".")
    IN ModuleInfo(module, path,
                  IF is_package THEN dotted ELSE SubSeq(dotted, 1, Len(dotted) - 1),
                  is_package)

\* ModuleIndexer.build over the walk: a later path of the same module name
\* replaces the earlier one in modules; by_path keeps every path.
build(cfg, walk) ==
    LET named == {i \in 1..Len(walk) : derive_module_name(cfg, walk[i]) # None}
        names == {derive_module_name(cfg, walk[i]) : i \in named}
        last(module) == CHOOSE i \in named :
                            /\ derive_module_name(cfg, walk[i]) = module
                            /\ \A j \in named :
                                  derive_module_name(cfg, walk[j]) = module => j <= i
    IN [modules |-> [m \in names |-> module_info(m, walk[last(m)])],
        by_path |-> [p \in {walk[i] : i \in named} |-> derive_module_name(cfg, p)]]

(***************************************************************************)
(* Symbol extraction and the reverse graph (indexer.py)                    *)
(***************************************************************************)

\* The syntax-tree nodes analyze_module looks at.
FunctionDef(name) == [node |-> "FunctionDef", name |-> name]
ClassDef(name)    == [node |-> "ClassDef", name |-> name]
Assign(targets)   == [node |-> "Assign", targets |-> targets]
alias(name, asname) == [name |-> name, asname |-> asname]
Import(names)     == [node |-> "Import", names |-> names]
ImportFrom(module, names, level) ==
    [node |-> "ImportFrom", module |-> module, names |-> names, level |-> level]

\* A definition with statements in its body.
FunctionDefOf(name, body) == [node |-> "FunctionDef", name |-> name, body |-> body]
ClassDefOf(name, body)    == [node |-> "ClassDef", name |-> name, body |-> body]

\* What safe_parse makes of a file: its tree (the statements of the module,
\* top level first), or None for a file that cannot be read, decoded or parsed.
Module(nodes) == [tree |-> nodes]
Unparsable    == [tree |-> None]

\* ast.walk: every node of the tree, the statements inside the bodies of
\* definitions included (the order plays no part in analyze_module).
RECURSIVE walk(_)
walk(nodes) ==
    IF nodes = <<>> THEN <<>>
    ELSE LET n == Head(nodes)
         IN <<n>> \o (IF "body" \in DOMAIN n THEN walk(n.body) ELSE <<>>)
                 \o walk(Tail(nodes))

ModuleData(exports, imports) == [exports |-> exports, imports |-> imports]

\* dict.get(key, default)
get(mapping, key, default) == IF key \in DOMAIN mapping THEN mapping[key] ELSE default

\* The dict of sets a set of <<key, element>> pairs stands for.
Grouped(pairs) ==
    [k \in {p[1] : p \in pairs} |-> {p[2] : p \in {q \in pairs : q[1] = k}}]

\* Mutant: the base is the importer's name minus its last component, for a
\* package entry point as well.
resolve_import_module_leaf_base(info, module, level) ==
    LET own  == split(info.name, ".")
        base == SubSeq(own, 1, Len(own) - 1)
        drop == IF level > 1 THEN Min(Len(base), level - 1) ELSE 0
        kept == SubSeq(base, 1, Len(base) - drop)
        all  == IF module # None /\ module # "" THEN kept \o split(module, ".") ELSE kept
    IN IF level = 0 THEN module
       ELSE join(".", SelectSeq(all, LAMBDA part : part # ""))

resolve_import_module(info, module, level) ==
    LET own  == split(info.name, ".")
        base == IF info.is_package THEN own ELSE SubSeq(own, 1, Len(own) - 1)
        drop == IF level > 1 THEN Min(Len(base), level - 1) ELSE 0
        kept == SubSeq(base, 1, Len(base) - drop)
        all  == IF module # None /\ module # "" THEN kept \o split(module, ".") ELSE kept
    IN IF level = 0 THEN module
       ELSE join(".", SelectSeq(all, LAMBDA part : part # ""))

\* The names one node adds to the export set.
node_exports(info, n) ==
    CASE n.node \in {"ClassDef", "FunctionDef", "AsyncFunctionDef"} -> {n.name}
      [] n.node = "Assign" -> Range(n.targets)
      [] n.node = "Import" ->
            {IF a.asname # None /\ a.asname # "" THEN a.asname ELSE split(a.name, ".")[1] :
                a \in Range(n.names)} \ {""}
      [] n.node = "ImportFrom" ->
            LET target == resolve_import_module(info, n.module, n.level)
            IN IF target = None \/ target = "" THEN {}
               ELSE {IF a.asname # None /\ a.asname # "" THEN a.asname ELSE a.name :
                        a \in {b \in Range(n.names) : b.name # "*"}}
      [] OTHER -> {}

\* The <<target module, symbol>> pairs one node adds to the import table.
node_imports(info, n) ==
    CASE n.node = "Import" ->
            {<<a.name, None>> : a \in {b \in Range(n.names) : b.name # ""}}
      [] n.node = "ImportFrom" ->
            LET target == resolve_import_module(info, n.module, n.level)
            IN IF target = None \/ target = "" THEN {}
               ELSE {<<target,
                       IF a.name = "*" THEN None
                       ELSE IF a.asname # None /\ a.asname # "" THEN a.asname
                       ELSE a.name>> : a \in Range(n.names)}
      [] OTHER -> {}

analyze_module(info, files) ==
    LET tree  == files[info.path].tree
        nodes == walk(tree)
    IN IF tree = None THEN ModuleData({}, <<>>)
       ELSE ModuleData(UNION {node_exports(info, nodes[i]) : i \in 1..Len(nodes)},
                       Grouped(UNION {node_imports(info, nodes[i]) : i \in 1..Len(nodes)}))

\* Mutant: the augmentation does not look the dotted name up in the index.
augmented_imports_unchecked(idx, imports) ==
    LET pairs == {<<t, s>> : t \in DOMAIN imports, s \in UNION {imports[u] : u \in DOMAIN imports}}
        own   == {p \in pairs : p[2] \in imports[p[1]]}
        extra == {<<p[1] \o "." \o p[2], None>> : p \in {q \in own : q[2] # None}}
    IN Grouped(own \cup extra)

\* Mutant: no closure augmentation, the imports stay as analysed.
imports_unaugmented(idx, imports) == imports

\* The closure-augmentation pass of build_module_data on one module's imports:
\* a named symbol that is itself an indexed module is also a whole-module
\* import of that module.
augmented_imports(idx, imports) ==
    LET pairs == {<<t, s>> : t \in DOMAIN imports, s \in UNION {imports[u] : u \in DOMAIN imports}}
        own   == {p \in pairs : p[2] \in imports[p[1]]}
        extra == {<<p[1] \o "." \o p[2], None>> :
                    p \in {q \in own : q[2] # None /\ (q[1] \o "." \o q[2]) \in DOMAIN idx.modules}}
    IN Grouped(own \cup extra)

\* build_module_data: the module data of every indexed module.
build_module_data(idx, files) ==
    [m \in DOMAIN idx.modules |->
        LET analysed == analyze_module(idx.modules[m], files)
        IN ModuleData(analysed.exports, augmented_imports(idx, analysed.imports))]

\* Mutant: only the named symbols are inverted, the whole-module imports
\* leave no reverse edge.
build_reverse_named_only(data) ==
    LET triples == UNION {{<<t, s, m>> : s \in data[m].imports[t] \ {None}} :
                            <<m, t>> \in {<<m, t>> \in (DOMAIN data) \X
                                            UNION {DOMAIN data[x].imports : x \in DOMAIN data} :
                                                t \in DOMAIN data[m].imports}}
    IN [t \in {x[1] : x \in triples} |->
          Grouped({<<x[2], x[3]>> : x \in {y \in triples : y[1] = t}})]

\* build_module_data: the reverse adjacency map, every (importer, target,
\* symbol) triple of the module data inverted.  An import entry with no
\* symbols counts as a whole-module import ("symbols or {None}").
build_reverse(data) ==
    LET symbols(m, t) == IF data[m].imports[t] = {} THEN {None} ELSE data[m].imports[t]
        triples == UNION {{<<t, s, m>> : s \in symbols(m, t)} :
                            <<m, t>> \in {<<m, t>> \in (DOMAIN data) \X
                                            UNION {DOMAIN data[x].imports : x \in DOMAIN data} :
                                                t \in DOMAIN data[m].imports}}
    IN [t \in {x[1] : x \in triples} |->
          Grouped({<<x[2], x[3]>> : x \in {y \in triples : y[1] = t}})]

(***************************************************************************)
(* ImpactResolver (resolver.py)                                            *)
(***************************************************************************)

_is_test_module(cfg, info) ==
    is_test_file(cfg.naming, info.path, cfg.root, cfg.python_suffixes) = TRUE

\* ImpactResolver.__init__: the token tables of the indexed test modules.
test_paths(cfg, idx) ==
    {idx.modules[m].path : m \in {n \in DOMAIN idx.modules : _is_test_module(cfg, idx.modules[n])}}

init_test_tokens(cfg, idx) == [p \in test_paths(cfg, idx) |-> path_tokens(cfg, p)]

init_test_dir_tokens(cfg, tokens) == [p \in DOMAIN tokens |-> directory_tokens(cfg, p)]

\* resolve: the modules of the changed paths the index knows.
changed_modules(idx, paths) ==
    {idx.by_path[p] : p \in Range(paths) \cap DOMAIN idx.by_path}

\* Mutant: a changed module is seeded with its exports only.
seed_entries_exports_only(module, exports_order) ==
    [i \in 1..Len(exports_order) |-> <<module, exports_order[i]>>]

\* Mutant: a changed module is seeded with its whole-module entry only.
seed_entries_sentinel_only(module, exports_order) == <<<<module, None>>>>

\* resolve: the entries one changed module seeds, its exports in the order
\* the export set yields them, then the whole-module entry.
seed_entries(module, exports_order) ==
    [i \in 1..Len(exports_order) |-> <<module, exports_order[i]>>] \o <<<<module, None>>>>

\* resolve: the queues the seeding loop can build, over the iteration orders
\* of the changed-module set and of each export set.
RECURSIVE seed_queues(_, _)
seed_queues(data, modules_order) ==
    IF modules_order = <<>> THEN {<<>>}
    ELSE LET module == modules_order[1]
             first  == IF module \in DOMAIN data
                       THEN {seed_entries(module, o) : o \in Orders(data[module].exports)}
                       ELSE {<<<<module, None>>>>}
         IN {a \o b : a \in first, b \in seed_queues(data, Tail(modules_order))}

\* Mutant: for a concrete symbol the whole-module importers are not added.
dependants_symbol_only(reverse_map, module, symbol) ==
    get(get(reverse_map, module, <<>>), symbol, {})

\* resolve: the dependants looked up for a popped (module, symbol).
dependants(reverse_map, module, symbol) ==
    LET reverse == get(reverse_map, module, <<>>)
    IN IF symbol = None THEN get(reverse, None, {})
       ELSE get(reverse, symbol, {}) \cup get(reverse, None, {})

\* Mutant: a dependant is enqueued under the popped symbol whatever it
\* imported from the module.
enqueued_for_carrying_symbol(data, module, symbol, dependant) ==
    IF dependant \notin DOMAIN data THEN <<>>
    ELSE IF get(data[dependant].imports, module, {}) = {} THEN <<>>
    ELSE <<<<dependant, symbol>>>>

\* resolve: what the loop body appends for one dependant, after the re-check
\* against the dependant's own import set for the module.
enqueued_for(data, module, symbol, dependant) ==
    LET imported_symbols == get(data[dependant].imports, module, {})
    IN IF dependant \notin DOMAIN data THEN <<>>
       ELSE IF symbol = None
            THEN (IF None \in imported_symbols THEN <<<<dependant, None>>>> ELSE <<>>)
            ELSE (IF symbol \in imported_symbols THEN <<<<dependant, symbol>>>> ELSE <<>>)
                 \o (IF None \in imported_symbols THEN <<<<dependant, None>>>> ELSE <<>>)

\* resolve: everything appended while expanding (module, symbol), the
\* dependants taken in the given order.
RECURSIVE enqueued(_, _, _, _)
enqueued(data, module, symbol, dependants_order) ==
    IF dependants_order = <<>> THEN <<>>
    ELSE enqueued_for(data, module, symbol, dependants_order[1])
         \o enqueued(data, module, symbol, Tail(dependants_order))

\* Mutant: propagation by module, every importer of the module enqueued
\* whatever symbol it imported.
expansions_by_module(data, reverse_map, module, symbol) ==
    {[i \in 1..Len(order) |-> <<order[i], None>>] :
        order \in Orders(UNION {get(reverse_map, module, <<>>)[k] :
                                  k \in DOMAIN get(reverse_map, module, <<>>)})}

\* Mutant: the edges are walked in both directions, to the importers of the
\* module and to the modules it imports.
expansions_undirected(data, reverse_map, module, symbol) ==
    LET reverse   == get(reverse_map, module, <<>>)
        importers == UNION {reverse[k] : k \in DOMAIN reverse}
        imported  == DOMAIN get(data, module, ModuleData({}, <<>>)).imports
    IN {[i \in 1..Len(order) |-> <<order[i], None>>] :
           order \in Orders(importers \cup imported)}

\* resolve: the lists the loop body can append while expanding a popped
\* (module, symbol) of a non-test module, one per iteration order of the
\* dependants.
expansions(data, reverse_map, module, symbol) ==
    {enqueued(data, module, symbol, order) :
        order \in Orders(dependants(reverse_map, module, symbol))}

\* Mutant: for a concrete symbol the whole-module importers are added to the
\* set the reverse graph holds, not to a copy of it.
reverse_after_lookup_in_place(reverse_map, module, symbol) ==
    IF symbol # None /\ module \in DOMAIN reverse_map /\ symbol \in DOMAIN reverse_map[module]
    THEN [reverse_map EXCEPT ![module][symbol] = @ \cup get(reverse_map[module], None, {})]
    ELSE reverse_map

\* resolve: the reverse graph once the dependants of a popped (module,
\* symbol) are looked up.  The lookups are by get, which inserts nothing, and
\* for a concrete symbol the set is copied ("set(reverse.get(symbol, set()))")
\* before the whole-module importers are added: the graph keeps its sets.
reverse_after_lookup(reverse_map, module, symbol) == reverse_map

\* Mutant: a popped test module is expanded like any other module.
popped_expansions_through_tests(cfg, idx, data, reverse_map, module, symbol) ==
    {enqueued(data, module, symbol, order) :
        order \in Orders(dependants(reverse_map, module, symbol))}

\* resolve: the lists the loop body can append for a popped entry it has not
\* visited before: none for a test module ("continue"), the expansions for
\* any other.
popped_expansions(cfg, idx, data, reverse_map, module, symbol) ==
    IF module \in DOMAIN idx.modules /\ _is_test_module(cfg, idx.modules[module])
    THEN {<<>>}
    ELSE expansions(data, reverse_map, module, symbol)

\* Mutant: the visited check is left out.
already_visited_never(seen, entry) == FALSE

\* resolve: "if (module, symbol) in visited: continue".
already_visited(seen, entry) == entry \in seen

\* sum(len(token) for token in tokens)
RECURSIVE sum_len(_)
sum_len(tokens) ==
    IF tokens = {} THEN 0
    ELSE LET t == CHOOSE x \in tokens : TRUE
         IN Len(t) + sum_len(tokens \ {t})

\* max(scores)
max(scores) == CHOOSE x \in Range(scores) : \A y \in Range(scores) : y <= x

\* Mutant: the configured score is the threshold, whatever its sign.
fallback_threshold_unclamped(cfg) == cfg.tokens.fallback_score

\* resolve: the threshold the fallback loop compares with.
fallback_threshold(cfg) ==
    IF cfg.tokens.fallback_score <= 0 THEN 1 ELSE cfg.tokens.fallback_score

\* resolve: the score of one test path, the best over the changed paths.
fallback_score_of(tokens, staged) ==
    LET scores == [i \in 1..Len(staged) |-> sum_len(tokens \cap staged[i])]
    IN IF scores # <<>> THEN max(scores) ELSE 0

\* Mutant: the directory-token gate lets every test pass.
dir_match_always(dir_tokens, staged_dirs) == TRUE

\* resolve: whether some changed path shares a directory token with the test.
dir_match(dir_tokens, staged_dirs) ==
    \E i \in 1..Len(staged_dirs) : dir_tokens \cap staged_dirs[i] # {}

\* Mutant: the fallback loop selects nothing.
fallback_modules_none(cfg, idx, tokens_of, dir_tokens_of, staged, staged_dirs) == {}

\* resolve: the module names the fallback loop adds.
fallback_modules(cfg, idx, tokens_of, dir_tokens_of, staged, staged_dirs) ==
    {idx.by_path[p] :
        p \in {q \in DOMAIN tokens_of :
                 /\ q \in DOMAIN idx.by_path
                 /\ fallback_score_of(tokens_of[q], staged) >= fallback_threshold(cfg)
                 /\ dir_match(get(dir_tokens_of, q, {}), staged_dirs)
                 /\ idx.by_path[q] # ""}}

\* Mutant: what the fallback loop selects replaces the graph hits.
impacted_with_fallback_instead(impacted, selected) ==
    IF selected # {} THEN selected ELSE impacted

\* resolve: the impacted set once the fallback loop has added its modules to
\* the graph hits.
impacted_with(impacted, selected) == impacted \cup selected

\* Mutant: the paths are returned in the order the impacted set yields them.
sorted_not(paths) == paths

\* sorted(paths)
sorted(paths) == SortSeq(paths, LAMBDA p, q : PathLess(p, q))

\* resolve: the paths of the impacted modules that are indexed test modules.
impacted_paths(cfg, idx, impacted) ==
    {idx.modules[m].path :
        m \in {n \in impacted : n \in DOMAIN idx.modules /\ _is_test_module(cfg, idx.modules[n])}}

(***************************************************************************)
(* The repository the resolver is run on                                   *)
(***************************************************************************)

root == <<"/", "repo">>

feature_py       == root \o <<"feature.py">>
consumer_py      == root \o <<"consumer.py">>
test_feature_py  == root \o <<"tests", "test_feature.py">>
test_consumer_py == root \o <<"tests", "test_consumer.py">>
tax_py           == root \o <<"src", "billing", "tax.py">>
invoices_py      == root \o <<"shipping", "invoices.py">>
test_invoices_py == root \o <<"tests", "billing", "test_invoices.py">>

Files == {feature_py, consumer_py, test_feature_py, test_consumer_py,
          tax_py, invoices_py, test_invoices_py}

from_import(module, name)           == ImportFrom(module, <<alias(name, None)>>, 0)
from_import_as(module, name, local) == ImportFrom(module, <<alias(name, local)>>, 0)
import(module)                      == Import(<<alias(module, None)>>)

\* The repository's own layout (tests/test_resolver.py), Module per file.
Baseline ==
    [p \in Files |->
        CASE p = feature_py -> Module(<<Assign(<<"VALUE">>), FunctionDef("compute")>>)
          [] p = consumer_py ->
                Module(<<from_import("feature", "compute"), FunctionDef("adapter")>>)
          [] p = test_feature_py ->
                Module(<<from_import("feature", "compute"), FunctionDef("test_compute")>>)
          [] p = test_consumer_py ->
                Module(<<from_import("consumer", "adapter"), FunctionDef("test_adapter")>>)
          [] p = tax_py -> Module(<<Assign(<<"RATE">>)>>)
          [] p = invoices_py -> Module(<<FunctionDef("total")>>)
          [] p = test_invoices_py -> Module(<<FunctionDef("test_total")>>)]

\* The other contents a file is given.
Rewrites(path) ==
    CASE path = feature_py ->
            {Module(<<import("consumer"), Assign(<<"VALUE">>), FunctionDef("compute")>>),
             Module(<<from_import("consumer", "adapter"), Assign(<<"VALUE">>),
                      FunctionDef("compute")>>)}
      [] path = consumer_py ->
            {Module(<<import("feature"), FunctionDef("adapter")>>),
             Module(<<from_import("feature", "*"), FunctionDef("adapter")>>),
             Module(<<from_import_as("feature", "compute", "calc"), FunctionDef("adapter")>>),
             Module(<<FunctionDef("adapter")>>)}
      [] path = test_feature_py ->
            {Module(<<import("feature"), FunctionDef("test_compute")>>),
             Module(<<from_import("tests.test_consumer", "test_adapter"),
                      FunctionDef("test_compute")>>)}
      [] path = test_consumer_py ->
            {Module(<<from_import("consumer", "compute"), FunctionDef("test_adapter")>>),
             Module(<<import("consumer"), FunctionDef("test_adapter")>>)}
      [] path = test_invoices_py ->
            {Module(<<from_import("shipping.invoices", "total"), FunctionDef("test_total")>>)}
      [] OTHER -> {}

Sources(path) == {Baseline[path]} \cup Rewrites(path)

\* The files whose imports make the graph the traversal walks.
GraphFiles == {feature_py, consumer_py, test_feature_py, test_consumer_py}

\* The fallback-score settings the resolver is run with.
FallbackScores == {0, 3, DEFAULT_FALLBACK_SCORE}

Configs ==
    {RunnerConfig(root, TokenConfig(DEFAULT_MINIMUM_LENGTH, score, DEFAULT_GENERIC_TOKENS)) :
        score \in FallbackScores}

DefaultConfig ==
    RunnerConfig(root, TokenConfig(DEFAULT_MINIMUM_LENGTH, DEFAULT_FALLBACK_SCORE,
                                   DEFAULT_GENERIC_TOKENS))

\* The repositories: every combination of contents of the graph files, and
\* the baseline with the fallback-matched test file rewritten.
Repositories ==
    {[p \in Files |-> CASE p = feature_py -> a
                        [] p = consumer_py -> b
                        [] p = test_feature_py -> c
                        [] p = test_consumer_py -> d
                        [] OTHER -> Baseline[p]] :
        <<a, b, c, d>> \in Sources(feature_py) \X Sources(consumer_py)
                           \X Sources(test_feature_py) \X Sources(test_consumer_py)}
    \cup {[Baseline EXCEPT ![test_invoices_py] = g] : g \in Sources(test_invoices_py)}

\* The runs: the import graph is varied under the default configuration, the
\* fallback score over the repositories that keep the baseline graph (the
\* traversal reads no token setting, the matcher no import).
Runs ==
    {<<DefaultConfig, files>> : files \in Repositories}
    \cup {<<cfg, files>> :
            <<cfg, files>> \in Configs \X {f \in Repositories :
                                            \A p \in GraphFiles : f[p] = Baseline[p]}}

(***************************************************************************)
(* A second repository: a package under the source root and its tests      *)
(* (tests/test_runner_integration.py, tests/test_indexer.py), with copies   *)
(* of files outside the source root and under excluded directories          *)
(***************************************************************************)

app_init_py       == root \o <<"src", "app", "__init__.py">>
service_py        == root \o <<"src", "app", "service.py">>
util_py           == root \o <<"src", "app", "util.py">>
test_service_py   == root \o <<"tests", "app", "test_service.py">>
test_util_py      == root \o <<"tests", "app", "test_util.py">>
util_copy_py      == root \o <<"app", "util.py">>
test_util_copy_py == root \o <<"src", "tests", "app", "test_util.py">>
venv_util_py      == root \o <<".venv", "app", "util.py">>
vendored_py       == root \o <<"src", "app", "node_modules", "dep", "mod.py">>


\* Files below a directory whose name starts with a dot: the part before the
\* first dot, the empty string, is what the tokenizer splits.
deploy_py     == root \o <<".github", "deploy.py">>
test_hooks_py == root \o <<".github", "tests", "test_hooks.py">>

AppFiles   == {app_init_py, service_py, util_py, test_service_py, test_util_py}
HookFiles  == {deploy_py, test_hooks_py}
ExtraFiles == {util_copy_py, test_util_copy_py, venv_util_py, vendored_py}

relative_import(module, name, local, level) ==
    ImportFrom(module, <<alias(name, local)>>, level)

\* The contents a file of the package layout is given, the first of each the
\* layout of the integration test.
AppSources(path) ==
    CASE path = app_init_py -> <<Module(<<>>)>>
      [] path = service_py ->
            <<Module(<<from_import("app", "util"), FunctionDef("get_answer")>>),
              Module(<<from_import_as("app", "util", "helpers"), FunctionDef("get_answer")>>),
              Module(<<relative_import(None, "util", None, 1), FunctionDef("get_answer")>>),
              Module(<<relative_import("util", "adjust", None, 1), FunctionDef("get_answer")>>),
              Module(<<relative_import("util", "adjust", "tweak", 1),
                       FunctionDef("get_answer")>>)>>
      [] path = util_py ->
            <<Module(<<FunctionDef("adjust")>>),
              Module(<<FunctionDefOf("adjust", <<Assign(<<"offset">>)>>),
                       ClassDefOf("Scale", <<FunctionDef("apply")>>)>>),
              Unparsable>>
      [] path = test_service_py ->
            <<Module(<<from_import("app", "service"), FunctionDef("test_get_answer")>>),
              Module(<<from_import("app.service", "get_answer"),
                       FunctionDef("test_get_answer")>>),
              Unparsable>>
      [] path = test_util_py ->
            <<Module(<<import("app.util"), FunctionDef("test_adjust")>>),
              Module(<<from_import_as("app.util", "adjust", "tweak"),
                       FunctionDef("test_adjust")>>),
              Module(<<import("tests.app.test_service"), FunctionDef("test_adjust")>>)>>
      [] path = util_copy_py -> <<Module(<<FunctionDef("adjust")>>)>>
      [] path = test_util_copy_py -> <<Module(<<FunctionDef("test_adjust")>>)>>
      [] path = venv_util_py -> <<Module(<<Assign(<<"VALUE">>)>>)>>
      [] path = vendored_py -> <<Module(<<Assign(<<"VALUE">>)>>)>>
      [] path = deploy_py -> <<Module(<<FunctionDef("deploy")>>)>>
      [] path = test_hooks_py -> <<Module(<<FunctionDef("test_hooks")>>)>>

\* The layouts, each named by the contents picked for the package files and
\* the extra files present: every combination of contents of the package
\* files, and the integration test's layout with any of the extra files.
Layouts ==
    {<<pick, {}>> : pick \in [AppFiles -> 1..5]}
    \cup {<<[p \in AppFiles |-> 1], extra>> : extra \in SUBSET ExtraFiles}

\* The configurations with a fallback score of zero or less; minimum_length 0
\* keeps the empty token.
ClampConfigs ==
    {RunnerConfig(root, TokenConfig(0, score, DEFAULT_GENERIC_TOKENS)) : score \in {-1, 0}}

\* The runs: every layout under the default configuration, and the
\* integration test's layout with the dot-directory files under the
\* configurations of ClampConfigs and the default one.
LayoutRuns ==
    {<<DefaultConfig, layout>> :
        layout \in {l \in Layouts : \A p \in AppFiles : l[1][p] <= Len(AppSources(p))}}
    \cup {<<cfg, <<[p \in AppFiles |-> 1], HookFiles>>>> :
            cfg \in ClampConfigs \cup {DefaultConfig}}

Layout(pick, extra) ==
    [p \in AppFiles \cup extra |->
        IF p \in AppFiles THEN AppSources(p)[pick[p]] ELSE AppSources(p)[1]]

\* The longest changed-path list resolve is called with.
MaxChanged == 2

\* The paths a diff may report: files of the repository, and one the index
\* does not hold.
notes_txt == root \o <<"billing", "notes.txt">>

ChangedCandidates ==
    {feature_py, consumer_py, test_consumer_py, tax_py, invoices_py, notes_txt,
     service_py, util_py, test_service_py, test_util_py, util_copy_py, test_util_copy_py,
     deploy_py}

ChangedLists ==
    UNION {{s \in [1..n -> ChangedCandidates] : \A i, j \in 1..n : s[i] = s[j] => i = j} :
              n \in 0..MaxChanged}

(***************************************************************************)
(* The state machine                                                       *)
(***************************************************************************)

Init ==
    /\ config \in Configs
    /\ \E ascending \in BOOLEAN :
          index = build(config, iter_python_files(config, Files, ascending))
    /\ test_tokens = init_test_tokens(config, index)
    /\ test_dir_tokens = init_test_dir_tokens(config, test_tokens)
    /\ \E run \in Runs :
          /\ config = run[1]
          /\ contents = run[2]
    /\ module_data = build_module_data(index, contents)
    /\ reverse_imports = build_reverse(module_data)
    /\ changed_paths = <<>>
    /\ staged_tokens = <<>>
    /\ staged_dir_tokens = <<>>
    /\ pc = "idle"
    /\ queue = <<>>
    /\ visited = {}
    /\ impacted_modules = {}
    /\ result = <<>>
    /\ tok_call = <<>>
    /\ tok_ret = {}

\* resolve([]): "if not changed_paths: return []".
ResolveNothing ==
    /\ pc = "idle"
    /\ changed_paths' = <<>>
    /\ staged_tokens' = <<>>
    /\ staged_dir_tokens' = <<>>
    /\ queue' = <<>>
    /\ visited' = {}
    /\ impacted_modules' = {}
    /\ result' = <<>>
    /\ pc' = "done"
    /\ UNCHANGED <<built, tok_call, tok_ret>>

\* resolve(paths) up to the traversal loop: the changed modules are looked up
\* and the queue is seeded (it stays empty when no changed path is indexed).
\* staged_tokens and staged_dir_tokens are functions of the argument alone;
\* the code builds them right after the loop, the model when the call starts.
ResolveSeed ==
    /\ pc = "idle"
    /\ \E paths \in ChangedLists \ {<<>>} :
          /\ Range(paths) \subseteq DOMAIN contents \cup {notes_txt}
          /\ changed_paths' = paths
          /\ staged_tokens' = [i \in 1..Len(paths) |-> path_tokens(config, paths[i])]
          /\ staged_dir_tokens' = [i \in 1..Len(paths) |-> directory_tokens(config, paths[i])]
          /\ \E order \in Orders(changed_modules(index, paths)) :
                queue' \in seed_queues(module_data, order)
    /\ visited' = {}
    /\ impacted_modules' = {}
    /\ result' = <<>>
    /\ pc' = "graph"
    /\ UNCHANGED <<built, tok_call, tok_ret>>

\* One iteration of "while queue".
Visit ==
    /\ pc = "graph"
    /\ queue # <<>>
    /\ LET module == Head(queue)[1]
           symbol == Head(queue)[2]
       IN IF already_visited(visited, Head(queue))
          THEN /\ queue' = Tail(queue)
               /\ UNCHANGED <<visited, impacted_modules>>
          ELSE /\ visited' = visited \cup {Head(queue)}
               /\ impacted_modules' =
                     IF module \in DOMAIN index.modules
                        /\ _is_test_module(config, index.modules[module])
                     THEN impacted_modules \cup {module}
                     ELSE impacted_modules
               /\ \E appended \in popped_expansions(config, index, module_data,
                                                    reverse_imports, module, symbol) :
                     queue' = Tail(queue) \o appended
    /\ LET module == Head(queue)[1]
           symbol == Head(queue)[2]
       IN reverse_imports' =
             IF already_visited(visited, Head(queue))
                \/ (module \in DOMAIN index.modules
                    /\ _is_test_module(config, index.modules[module]))
             THEN reverse_imports
             ELSE reverse_after_lookup(reverse_imports, module, symbol)
    /\ UNCHANGED <<config, contents, index, module_data, test_tokens, test_dir_tokens,
                 changed_paths, staged_tokens, staged_dir_tokens,
                 pc, result, tok_call, tok_ret>>

\* The fallback loop, run once the queue is empty.
Fallback ==
    /\ pc = "graph"
    /\ queue = <<>>
    /\ impacted_modules' =
          impacted_with(impacted_modules,
                        fallback_modules(config, index, test_tokens, test_dir_tokens,
                                         staged_tokens, staged_dir_tokens))
    /\ pc' = "collect"
    /\ UNCHANGED <<built, changed_paths, staged_tokens, staged_dir_tokens,
                 queue, visited, result, tok_call, tok_ret>>

\* "return sorted(...)": the impacted set is iterated in some order and sorted.
Return ==
    /\ pc = "collect"
    /\ \E order \in Orders(impacted_paths(config, index, impacted_modules)) :
          result' = sorted(order)
    /\ pc' = "done"
    /\ UNCHANGED <<built, changed_paths, staged_tokens, staged_dir_tokens,
                 queue, visited, impacted_modules, tok_call, tok_ret>>

\* The caller has the list; the resolver stands ready for its next call.
Discard ==
    /\ pc = "done"
    /\ changed_paths' = <<>>
    /\ staged_tokens' = <<>>
    /\ staged_dir_tokens' = <<>>
    /\ queue' = <<>>
    /\ visited' = {}
    /\ impacted_modules' = {}
    /\ result' = <<>>
    /\ pc' = "idle"
    /\ UNCHANGED <<built, tok_call, tok_ret>>

Next == ResolveNothing \/ ResolveSeed \/ Visit \/ Fallback \/ Return \/ Discard

Spec == Init /\ [][Next]_vars

\* resolve is straight-line, single-threaded code: a loop iteration, the
\* fallback loop or the return that can run does run.
FairSpec == Spec /\ WF_vars(Visit) /\ WF_vars(Fallback) /\ WF_vars(Return)

(***************************************************************************)
(* Indexing and analysis of the second repository, then resolve            *)
(***************************************************************************)

NoIndex == [modules |-> <<>>, by_path |-> <<>>]

InitLayouts ==
    /\ \E run \in LayoutRuns :
          /\ config = run[1]
          /\ contents = Layout(run[2][1], run[2][2])
    /\ index = NoIndex
    /\ test_tokens = <<>>
    /\ test_dir_tokens = <<>>
    /\ module_data = <<>>
    /\ reverse_imports = <<>>
    /\ changed_paths = <<>>
    /\ staged_tokens = <<>>
    /\ staged_dir_tokens = <<>>
    /\ pc = "files"
    /\ queue = <<>>
    /\ visited = {}
    /\ impacted_modules = {}
    /\ result = <<>>
    /\ tok_call = <<>>
    /\ tok_ret = {}

\* TestsightRunner.plan up to the call of resolve: ModuleIndexer.build over
\* the walk, prepare_analysis, ImpactResolver.__init__.
BuildIndex ==
    /\ pc = "files"
    /\ \E ascending \in BOOLEAN :
          index' = build(config, iter_python_files(config, DOMAIN contents, ascending))
    /\ module_data' = build_module_data(index', contents)
    /\ reverse_imports' = build_reverse(module_data')
    /\ test_tokens' = init_test_tokens(config, index')
    /\ test_dir_tokens' = init_test_dir_tokens(config, test_tokens')
    /\ pc' = "idle"
    /\ UNCHANGED <<config, contents, changed_paths, staged_tokens, staged_dir_tokens,
                   queue, visited, impacted_modules, result, tok_call, tok_ret>>

NextLayouts == BuildIndex \/ Next

SpecLayouts == InitLayouts /\ [][NextLayouts]_vars

(***************************************************************************)
(* TokenCollector on its own                                               *)
(***************************************************************************)

\* The largest minimum token length configured.
MaxMinimumLength == 4

TokenConfigs ==
    {RunnerConfig(root, TokenConfig(minimum, DEFAULT_FALLBACK_SCORE, stopwords)) :
        minimum \in 0..MaxMinimumLength,
        stopwords \in {DEFAULT_GENERIC_TOKENS, <<>>, <<"payment", "taxes", "manager">>}}

\* Path components given to _split_token.
TokenInputs ==
    {"FeatureToggleManager", "payment-engine", "HTTPServer", "PaymentCore", "test_tax",
     "Utils", "a__b", "", "taxes", "XMLParser2Go", "common", "fee_engine"}

\* Paths given to path_tokens and directory_tokens; the last is not under root.
PathInputs ==
    Files \cup {notes_txt,
                root \o <<"src", "common", "PaymentCore.py">>,
                root \o <<"src", "billing", "adapter", "fee_engine.py">>,
                <<"/", "other", "x.y", "Taxes.py">>}

InitTokens ==
    /\ config \in TokenConfigs
    /\ contents = Baseline
    /\ index = build(config, iter_python_files(config, Files, TRUE))
    /\ test_tokens = init_test_tokens(config, index)
    /\ test_dir_tokens = init_test_dir_tokens(config, test_tokens)
    /\ module_data = build_module_data(index, contents)
    /\ reverse_imports = build_reverse(module_data)
    /\ changed_paths = <<>>
    /\ staged_tokens = <<>>
    /\ staged_dir_tokens = <<>>
    /\ pc = "tokens"
    /\ queue = <<>>
    /\ visited = {}
    /\ impacted_modules = {}
    /\ result = <<>>
    /\ tok_call = <<>>
    /\ tok_ret = {}

SplitToken ==
    /\ pc = "tokens"
    /\ \E token \in TokenInputs :
          /\ tok_call' = <<"_split_token", token>>
          /\ tok_ret' = _split_token(config, token)
    /\ UNCHANGED <<built, changed_paths, staged_tokens, staged_dir_tokens,
                 pc, queue, visited, impacted_modules, result>>

PathTokens ==
    /\ pc = "tokens"
    /\ \E path \in PathInputs :
          /\ tok_call' = <<"path_tokens", path>>
          /\ tok_ret' = path_tokens(config, path)
    /\ UNCHANGED <<built, changed_paths, staged_tokens, staged_dir_tokens,
                 pc, queue, visited, impacted_modules, result>>

DirectoryTokens ==
    /\ pc = "tokens"
    /\ \E path \in PathInputs :
          /\ tok_call' = <<"directory_tokens", path>>
          /\ tok_ret' = directory_tokens(config, path)
    /\ UNCHANGED <<built, changed_paths, staged_tokens, staged_dir_tokens,
                 pc, queue, visited, impacted_modules, result>>

NextTokens == SplitToken \/ PathTokens \/ DirectoryTokens

SpecTokens == InitTokens /\ [][NextTokens]_vars

(***************************************************************************)
(* The path and import-name functions on their own                         *)
(***************************************************************************)

\* A file reached through a symbolic link: its path is not under the root.
outside_py      == <<"/", "elsewhere", "pkg", "mod.py">>
outside_test_py == <<"/", "elsewhere", "tests", "test_mod.py">>

\* Paths given to derive_module_name and is_test_file.
DerivePaths ==
    Files \cup AppFiles \cup ExtraFiles
    \cup {notes_txt, outside_py, outside_test_py, root,
          root \o <<"src">>, root \o <<"src", "__init__.py">>,
          root \o <<"pkg", "mod_test.py">>, root \o <<"tests", "conftest.py">>}

\* Importing modules given to resolve_import_module: a.b.c and a, plain
\* modules, and a.b and a, packages.
ImporterInfos ==
    {module_info("a.b.c", root \o <<"a", "b", "c.py">>),
     module_info("a", root \o <<"a.py">>),
     module_info("a.b", root \o <<"a", "b", "__init__.py">>),
     module_info("a", root \o <<"a", "__init__.py">>)}

MaxLevel == 4

ImportTargets == {None, "", "x", "x.y"}

\* path.relative_to(root) raises ValueError.
raises(path, base) == ValueError = relative_to(path, base)

InitFunctions ==
    /\ config = DefaultConfig
    /\ contents = Baseline
    /\ index = build(config, iter_python_files(config, Files, TRUE))
    /\ test_tokens = init_test_tokens(config, index)
    /\ test_dir_tokens = init_test_dir_tokens(config, test_tokens)
    /\ module_data = build_module_data(index, contents)
    /\ reverse_imports = build_reverse(module_data)
    /\ changed_paths = <<>>
    /\ staged_tokens = <<>>
    /\ staged_dir_tokens = <<>>
    /\ pc = "functions"
    /\ queue = <<>>
    /\ visited = {}
    /\ impacted_modules = {}
    /\ result = <<>>
    /\ tok_call = <<>>
    /\ tok_ret = {}

\* ModuleIndexer(config).derive_module_name(path); tok_ret is how the call
\* ends: it returns the name or None, or raises the ValueError of
\* path.relative_to(root), which the function does not catch.
DeriveModuleName ==
    /\ pc = "functions"
    /\ \E path \in DerivePaths :
          /\ tok_call' = <<"derive_module_name", path>>
          /\ tok_ret' = IF raises(path, config.root)
                        THEN <<"raise", derive_module_name(config, path)>>
                        ELSE <<"return", derive_module_name(config, path)>>
    /\ UNCHANGED <<built, changed_paths, staged_tokens, staged_dir_tokens,
                 pc, queue, visited, impacted_modules, result>>

\* config.naming.is_test_file(path, root, suffixes); tok_ret is how the call
\* ends: it returns the bool, or raises the ValueError of
\* path.relative_to(root), which the function does not catch.
IsTestFile ==
    /\ pc = "functions"
    /\ \E path \in DerivePaths :
          /\ tok_call' = <<"is_test_file", path>>
          /\ tok_ret' = IF raises(path, config.root)
                        THEN <<"raise", is_test_file(config.naming, path, config.root,
                                                     config.python_suffixes)>>
                        ELSE <<"return", is_test_file(config.naming, path, config.root,
                                                      config.python_suffixes)>>
    /\ UNCHANGED <<built, changed_paths, staged_tokens, staged_dir_tokens,
                 pc, queue, visited, impacted_modules, result>>

\* resolve_import_module(info, module, level)
ResolveImportModule ==
    /\ pc = "functions"
    /\ \E info \in ImporterInfos, module \in ImportTargets, level \in 0..MaxLevel :
          /\ tok_call' = <<"resolve_import_module", info, module, level>>
          /\ tok_ret' = <<"return", resolve_import_module(info, module, level)>>
    /\ UNCHANGED <<built, changed_paths, staged_tokens, staged_dir_tokens,
                 pc, queue, visited, impacted_modules, result>>

NextFunctions == DeriveModuleName \/ IsTestFile \/ ResolveImportModule

SpecFunctions == InitFunctions /\ [][NextFunctions]_vars

(***************************************************************************)
(* Properties                                                              *)
(***************************************************************************)

Modules == DOMAIN index.modules

IsTest(m) == m \in Modules /\ _is_test_module(config, index.modules[m])

\* The symbols module b's import map records for module a.
ImportsOf(b, a) == get(module_data[b].imports, a, {})

\* A Visit step that expands the entry at the head of the queue: a pair not
\* visited before, of a module that is no test module.
Expanding ==
    /\ pc = "graph"
    /\ queue # <<>>
    /\ Head(queue) \notin visited
    /\ ~IsTest(Head(queue)[1])

\* The entries the step appended behind the entries that were queued.
Appended == SubSeq(queue', Len(queue), Len(queue'))

\* The indexed modules of the changed paths.
Changed == {index.by_path[p] : p \in Range(changed_paths) \cap DOMAIN index.by_path}

\* A module imports another in both directions.
ImportCycle ==
    \E a, b \in Modules : a # b /\ ImportsOf(a, b) # {} /\ ImportsOf(b, a) # {}

\* C1: resolve terminates on every import graph, cyclic ones included: once
\* the traversal has started the queue becomes empty and the call returns;
\* and a pair is expanded at most once: a popped pair already in the visited
\* set is dropped with no other effect, any other pair joins the visited set.
C1_Terminates ==
    /\ (pc = "graph") ~> (pc = "done" /\ queue = <<>>)
    /\ [][(pc = "graph" /\ pc' = "graph") =>
            IF Head(queue) \in visited
            THEN queue' = Tail(queue) /\ visited' = visited
                 /\ impacted_modules' = impacted_modules
            ELSE visited' = visited \cup {Head(queue)}]_vars

\* C1 witness: in a repository with an import cycle, a call has returned
\* after the traversal went round the cycle (both modules were expanded).
C1_Witness ==
    /\ pc = "done"
    /\ ImportCycle
    /\ \E s, t \in {None, "compute", "adapter", "VALUE", "consumer", "feature"} :
          <<"feature", s>> \in visited /\ <<"consumer", t>> \in visited

\* C2: when B's import map for A holds the whole-module sentinel, expanding
\* any entry of the non-test module A, (A, sentinel) or (A, S), enqueues
\* (B, sentinel); so once a call has returned, every test module B that
\* imports a changed non-test module A wholesale is in the result.
C2_WholeModulePropagates ==
    /\ [][Expanding =>
            \A b \in Modules :
                None \in ImportsOf(b, Head(queue)[1]) => <<b, None>> \in Range(Appended)]_vars
    /\ [](pc = "done" =>
            \A a \in Changed, b \in Modules :
                (~IsTest(a) /\ IsTest(b) /\ None \in ImportsOf(b, a))
                    => index.modules[b].path \in Range(result))

\* C2 witness: feature.py was changed, the entry (feature, compute) of a
\* concrete symbol was expanded, and the test module that imports feature
\* wholesale is in the result.
C2_Witness ==
    /\ pc = "done"
    /\ changed_paths = <<feature_py>>
    /\ <<"feature", "compute">> \in visited
    /\ ImportsOf("tests.test_feature", "feature") = {None}
    /\ test_feature_py \in Range(result)

\* C3: when B's import map for A is exactly {S}, S a concrete symbol,
\* expanding (A, T) for T other than S, or (A, sentinel), enqueues no entry
\* of B.
C3_SymbolPrecise ==
    [][Expanding =>
         \A b \in Modules, s \in module_data[Head(queue)[1]].exports \cup {Head(queue)[2]} :
            (s # None /\ ImportsOf(b, Head(queue)[1]) = {s} /\ Head(queue)[2] # s)
                => \A i \in 1..Len(Appended) : Appended[i][1] # b]_vars

\* C3 witness: (feature, VALUE) and (feature, sentinel) were expanded while
\* consumer imports only compute from feature, and consumer was not reached
\* through them (feature.py's other symbol reached it).
C3_Witness ==
    /\ pc = "done"
    /\ changed_paths = <<consumer_py>>
    /\ ImportsOf("tests.test_consumer", "consumer") = {"compute"}
    /\ <<"consumer", "adapter">> \in visited
    /\ <<"consumer", None>> \in visited
    /\ \A e \in visited : e[1] # "tests.test_consumer"
    /\ test_consumer_py \notin Range(result)

\* The modules that import module a, in any form.
Importers(a) == {b \in Modules : ImportsOf(b, a) # {}}

\* The modules reached from those of S along reverse-dependency edges, the
\* chain leaving non-test modules only.
RECURSIVE ReachedFrom(_)
ReachedFrom(S) ==
    LET next == S \cup UNION {Importers(a) : a \in {x \in S : ~IsTest(x)}}
    IN IF next = S THEN S ELSE ReachedFrom(next)

PathOf(m) == index.modules[m].path

\* C4: for every changed indexed module A the returned list holds every test
\* module reachable from A by a chain of reverse-dependency edges (each
\* module importing the one before, by name or wholesale) that passes through
\* non-test modules only.
C4_ReachableTestsImpacted ==
    pc = "done" =>
        \A a \in Changed : \A t \in ReachedFrom({a}) :
            IsTest(t) => PathOf(t) \in Range(result)

\* No test module passes the fallback gates of the running call.
NoFallbackMatch ==
    fallback_modules(config, index, test_tokens, test_dir_tokens,
                     staged_tokens, staged_dir_tokens) = {}

\* Module a exports s, test module t imports s from a by name, and t is the
\* only module that imports a; a's file alone was changed and no test is
\* fallback-selected.
OnlyImporter(a, s, t) ==
    /\ changed_paths = <<PathOf(a)>>
    /\ s \in module_data[a].exports
    /\ t # a
    /\ IsTest(t)
    /\ s \in ImportsOf(t, a)
    /\ \A b \in Modules \ {t} : ImportsOf(b, a) = {}
    /\ NoFallbackMatch

\* C5 (as stated): when module A exports S and exactly one test module T
\* imports S from A by name, no other module imports A and no test passes the
\* fallback gates, resolve([A's file]) returns exactly [T's path].
C5_ExactlyTheImporter ==
    pc = "done" =>
        \A a, t \in Modules : \A s \in module_data[a].exports :
            OnlyImporter(a, s, t) => result = <<PathOf(t)>>

\* C5 (amended): the same for a module A that is not itself a test module; a
\* changed test module is a sink, it is returned itself and its importers
\* are not.
C5_ExactlyTheImporterOfSource ==
    pc = "done" =>
        \A a, t \in Modules : \A s \in module_data[a].exports :
            (OnlyImporter(a, s, t) /\ ~IsTest(a)) => result = <<PathOf(t)>>

C5_Witness ==
    /\ pc = "done"
    /\ OnlyImporter("feature", "compute", "tests.test_feature")
    /\ ImportsOf("consumer", "feature") = {}
    /\ <<"tests.test_feature", "compute">> \in visited
    /\ result = <<test_feature_py>>

Tests == {m \in Modules : IsTest(m)}

\* The summed lengths of the tokens the path of test module t shares with
\* changed path c, and whether their directories share a token.
SharedLength(t, c) == sum_len(path_tokens(config, PathOf(t)) \cap path_tokens(config, c))

SharesDirectory(t, c) ==
    directory_tokens(config, PathOf(t)) \cap directory_tokens(config, c) # {}

\* The step that runs the fallback loop.
FallbackStep == pc = "graph" /\ pc' = "collect"

C8_GateOnTheScoringFile ==
    [][FallbackStep =>
          \A t \in impacted_modules' \ impacted_modules :
              \E c \in Range(changed_paths) :
                  /\ SharedLength(t, c) >= fallback_threshold(config)
                  /\ SharesDirectory(t, c)]_vars

\* Every token of the set passes the length and stopword gate.
Gated(tokens) ==
    \A t \in tokens : /\ Len(t) >= config.tokens.minimum_length
                      /\ t \notin Range(config.tokens.stopwords)

\* C9: every token _split_token, path_tokens or directory_tokens returns is
\* at least tokens.minimum_length long and is no stopword, so none shorter or
\* in the stopword set is in a token table the fallback matcher scores with.
C9_TokensPassGate ==
    /\ Gated(tok_ret)
    /\ \A p \in DOMAIN test_tokens : Gated(test_tokens[p])
    /\ \A p \in DOMAIN test_dir_tokens : Gated(test_dir_tokens[p])
    /\ \A i \in 1..Len(staged_tokens) : Gated(staged_tokens[i])
    /\ \A i \in 1..Len(staged_dir_tokens) : Gated(staged_dir_tokens[i])

C9_Witness ==
    /\ tok_call = <<"_split_token", "PaymentCore">>
    /\ config.tokens.minimum_length = 4
    /\ "core" \in Range(config.tokens.stopwords)
    /\ tok_ret = {"payment", "paymentcore"}

\* C10: the list resolve returns is in ascending path order with no path
\* twice, whether its entries come from the traversal, the fallback or both.
C10_ResultSorted ==
    pc = "done" =>
        \A i, j \in 1..Len(result) : i < j => PathLess(result[i], result[j])

C10_Witness ==
    /\ pc = "done"
    /\ Len(result) >= 2
    /\ \E i, j \in 1..Len(result) :
          /\ \E e \in visited : e[1] = index.by_path[result[i]]
          /\ \A e \in visited : e[1] # index.by_path[result[j]]

(***************************************************************************)
(* Properties of the index and the analysis                                *)
(***************************************************************************)

\* The indexed paths and the module names they are indexed under.
Indexed == DOMAIN index.by_path

\* C12: module names are unique per file: two distinct indexed paths never
\* map to the same module name, and modules[by_path[p]].path is p for every
\* path p of by_path.
C12_NamesUniquePerFile ==
    /\ \A p, q \in Indexed : index.by_path[p] = index.by_path[q] => p = q
    /\ \A p \in Indexed : index.modules[index.by_path[p]].path = p

\* The index of the walk that lists every directory in ascending order, and
\* the analysis made of it.
AscendingIndex == build(config, iter_python_files(config, DOMAIN contents, TRUE))
AscendingData  == build_module_data(AscendingIndex, contents)

\* The entries a traversal over idx reaches from the entries S, whatever the
\* order it pops them in: a test module is a sink, any other entry is
\* followed to all it enqueues.
RECURSIVE Reach(_, _, _, _)
Reach(idx, data, reverse_map, S) ==
    LET follow(e) ==
            IF e[1] \in DOMAIN idx.modules /\ _is_test_module(config, idx.modules[e[1]])
            THEN {}
            ELSE UNION {Range(enqueued_for(data, e[1], e[2], d)) :
                          d \in dependants(reverse_map, e[1], e[2])}
        T == S \cup UNION {follow(e) : e \in S}
    IN IF T = S THEN S ELSE Reach(idx, data, reverse_map, T)

\* The list resolve returns for the set of changed paths over idx, as a
\* function of the sets involved alone.
ResultOver(idx, data, paths) ==
    LET reverse_map == build_reverse(data)
        seeds    == UNION {{<<m, s>> : s \in get(data, m, ModuleData({}, <<>>)).exports \cup {None}} :
                              m \in changed_modules(idx, AnyOrder(paths))}
        graph    == {e[1] : e \in Reach(idx, data, reverse_map, seeds)}
        tokens   == init_test_tokens(config, idx)
        staged   == AnyOrder(paths)
        fallback == fallback_modules(config, idx, tokens, init_test_dir_tokens(config, tokens),
                                     [i \in 1..Len(staged) |-> path_tokens(config, staged[i])],
                                     [i \in 1..Len(staged) |-> directory_tokens(config, staged[i])])
    IN sorted(AnyOrder(impacted_paths(config, idx, graph \cup fallback)))

\* C11: for fixed contents and configuration the index, the module data, the
\* reverse graph and the result of resolve are the same whatever the order of
\* the walk, of the changed paths, of the queue entries and of the dependants:
\* they are those of the ascending walk and of the order-free closure.
C11_OrderIndependent ==
    /\ pc # "files" =>
          /\ index = AscendingIndex
          /\ module_data = AscendingData
          /\ reverse_imports = build_reverse(AscendingData)
    /\ pc = "done" => result = ResultOver(AscendingIndex, AscendingData, Range(changed_paths))

\* The same, over the repositories in which no two files share a module name.
C11_OrderIndependentWhenUnique ==
    C12_NamesUniquePerFile =>
        /\ pc # "files" => index = AscendingIndex /\ module_data = AscendingData
        /\ pc = "done" => result = ResultOver(index, module_data, Range(changed_paths))

\* A path with a directory of an excluded name between the root and itself.
BeneathExcluded(p) ==
    \E i \in (Len(config.root) + 1)..(Len(p) - 1) : p[i] \in Range(config.exclude_dirs)

\* C13: no file beneath a directory of an excluded name, at any depth below
\* the root, is in the index (by_path or modules), and the walk enters no
\* directory that is, or lies beneath, a directory of an excluded name.
C13_ExcludedNeverIndexed ==
    pc # "files" =>
        /\ \A p \in Indexed : ~BeneathExcluded(p)
        /\ \A m \in DOMAIN index.modules : ~BeneathExcluded(index.modules[m].path)
        /\ \A d \in walk_dirs(config, DOMAIN contents) :
              /\ d[Len(d)] \notin Range(config.exclude_dirs) \/ d = config.root
              /\ ~BeneathExcluded(d)

\* The index is built of a tree with .venv/app/util.py and
\* src/app/node_modules/dep/mod.py, and the files outside them are indexed.
C13_Witness ==
    /\ pc # "files"
    /\ {venv_util_py, vendored_py} \subseteq DOMAIN contents
    /\ AppFiles \subseteq Indexed
    /\ Indexed \cap {venv_util_py, vendored_py} = {}

\* The source of module m, and whether it parsed.
SourceOf(m) == contents[index.modules[m].path]
Parsed(m)   == SourceOf(m).tree # None

\* The top-level statements of module m that are "from ... import ..." with
\* the module they import from resolved, one <<module, name, asname>> per
\* imported name.
FromImports(m) ==
    IF ~Parsed(m) THEN {}
    ELSE LET tree == SourceOf(m).tree
         IN UNION {{<<resolve_import_module(index.modules[m], tree[i].module, tree[i].level),
                      tree[i].names[k].name, tree[i].names[k].asname>> :
                        k \in 1..Len(tree[i].names)} :
                     i \in {j \in 1..Len(tree) : tree[j].node = "ImportFrom"}}

\* Module b's source has "from pkg import a" with pkg.a the indexed module
\* named target, the name not aliased.
ObtainsFromPackage(b, target) ==
    \E f \in FromImports(b) :
        /\ f[1] # None /\ f[2] # "*" /\ f[3] = None
        /\ f[1] \o "." \o f[2] = target

ChangedTests ==
    {p \in Range(changed_paths) \cap Indexed :
        is_test_file(config.naming, p, config.root, config.python_suffixes) = TRUE}

\* The result holds all that resolve returns for each changed path alone.
Monotone ==
    \A p \in Range(changed_paths) :
        Range(ResultOver(index, module_data, {p})) \subseteq Range(result)

\* C15: every changed path that is an indexed test module is in the result,
\* and the result of several changed files holds the result of each of them
\* taken alone.
C15_ChangedTestsAndMonotone ==
    pc = "done" => ChangedTests \subseteq Range(result) /\ Monotone

\* The same, over the repositories in which no two files share a module name.
C15_ChangedTestsAndMonotoneWhenUnique ==
    C12_NamesUniquePerFile => C15_ChangedTestsAndMonotone

\* The call made is of derive_module_name or is_test_file, for a path that is
\* not under the root.
OutsideRootCall ==
    /\ tok_call # <<>>
    /\ tok_call[1] \in {"derive_module_name", "is_test_file"}
    /\ ValueError = relative_to(tok_call[2], config.root)

\* C16: for a path that is not under the root, derive_module_name and
\* is_test_file do not raise: the call returns, and derive_module_name
\* returns the name of the raw path components or no module.
C16_NoRaiseOutsideRoot ==
    OutsideRootCall =>
        /\ tok_ret[1] = "return"
        /\ tok_call[1] = "derive_module_name" =>
              tok_ret[2] \in {None, join(".", Tail(tok_call[2]))}

\* The indexed modules whose file did not parse.
Unparsed == {m \in Modules : ~Parsed(m)}

\* The modules that import module m wholesale.
WholesaleImporters(m) == {d \in Modules : None \in ImportsOf(d, m)}

\* An unparsed module has no exports and no imports, and is no importer in
\* the reverse graph.
EmptyData(m) ==
    /\ module_data[m].exports = {}
    /\ DOMAIN module_data[m].imports = {}
    /\ \A t \in DOMAIN reverse_imports : \A s \in DOMAIN reverse_imports[t] :
          m \notin reverse_imports[t][s]

\* A resolve call with m's file changed has seeded the whole-module entry.
SeededWhole(m) ==
    (pc \in {"graph", "collect", "done"} /\ m \in Changed) =>
        <<m, None>> \in visited \cup Range(queue)

\* A returned resolve call with m's file changed has reached every wholesale
\* importer of m and returned those that are tests.
ImportersReached(m) ==
    (pc = "done" /\ m \in Changed) =>
        \A d \in WholesaleImporters(m) :
            /\ <<d, None>> \in visited
            /\ IsTest(d) => index.modules[d].path \in Range(result)

\* C17: a module whose content does not parse has an empty ModuleData and is
\* no importer in the reverse graph; when its file is changed it is seeded
\* with the whole-module sentinel, every module that imports it wholesale is
\* reached and every such test module is in the result.
C17_UnparsableStillSeeded ==
    \A m \in Unparsed : EmptyData(m) /\ SeededWhole(m) /\ ImportersReached(m)

\* C17 as it holds: the importers are reached when the unparsed module is no
\* test module; an unparsed test module is itself in the result.
C17_UnparsableSourceStillSeeded ==
    \A m \in Unparsed :
        /\ EmptyData(m)
        /\ SeededWhole(m)
        /\ ~IsTest(m) => ImportersReached(m)
        /\ (IsTest(m) /\ pc = "done" /\ m \in Changed) =>
              index.modules[m].path \in Range(result)

\* resolve([src/app/util.py]) has returned tests/app/test_util.py, which has
\* "import app.util", with src/app/util.py not parsing.
C17_Witness ==
    /\ pc = "done"
    /\ "app.util" \in Unparsed
    /\ changed_paths = <<util_py>>
    /\ "tests.app.test_util" \in WholesaleImporters("app.util")
    /\ test_util_py \in Range(result)

\* The names the top-level statements of module m bind: its top-level
\* definitions, assignments and import bindings.
TopLevelNames(m) ==
    IF ~Parsed(m) THEN {}
    ELSE UNION {node_exports(index.modules[m], SourceOf(m).tree[i]) :
                   i \in 1..Len(SourceOf(m).tree)}

\* The queue is as the seeding loop left it.
JustSeeded == pc = "graph" /\ visited = {}

\* C18: the export set of a module holds only names bound at its top level,
\* and no name bound only inside a function or class body is seeded as a
\* changed symbol.
C18_ExportsTopLevelOnly ==
    /\ \A m \in Modules : module_data[m].exports \subseteq TopLevelNames(m)
    /\ JustSeeded =>
          \A i \in 1..Len(queue) :
              queue[i][2] # None => queue[i][2] \in TopLevelNames(queue[i][1])

\* The named imports of module b: <<module, name, asname>> of every
\* "from module import name [as asname]" at its top level.
NamedImports(b) == {f \in FromImports(b) : f[1] \notin {None, ""} /\ f[2] # "*"}

\* C19: "from A import S [as T]" in module B records S in B's import set for
\* A, aliased or not, so that a visited (A, S) of a non-test A has enqueued
\* (B, S); and when A.S is an indexed module, B imports A.S wholesale.
C19_AliasRecordsImportedSymbol ==
    \A b \in Modules : \A f \in NamedImports(b) :
        /\ f[2] \in ImportsOf(b, f[1])
        /\ (f[1] \o "." \o f[2]) \in Modules => None \in ImportsOf(b, f[1] \o "." \o f[2])
        /\ (pc = "done" /\ <<f[1], f[2]>> \in visited /\ ~IsTest(f[1])) =>
              <<b, f[2]>> \in visited

\* The same for the imports that are not aliased.
C19_UnaliasedRecordsImportedSymbol ==
    \A b \in Modules : \A f \in {g \in NamedImports(b) : g[3] = None} :
        /\ f[2] \in ImportsOf(b, f[1])
        /\ (f[1] \o "." \o f[2]) \in Modules => None \in ImportsOf(b, f[1] \o "." \o f[2])
        /\ (pc = "done" /\ <<f[1], f[2]>> \in visited /\ ~IsTest(f[1])) =>
              <<b, f[2]>> \in visited

\* A call of resolve_import_module has returned; its arguments and result.
Resolved     == tok_call # <<>> /\ tok_call[1] = "resolve_import_module"
importer     == tok_call[2]
target       == tok_call[3]
import_level == tok_call[4]
resolved     == tok_ret[2]

\* The dotted segments of a name, none for None and the empty name.
Segments(name) == IF name = None \/ name = "" THEN <<>> ELSE split(name, ".")

\* The package a relative import of the importer starts from.
OwnPackage ==
    IF importer.is_package THEN Segments(importer.name)
    ELSE SubSeq(Segments(importer.name), 1, Len(Segments(importer.name)) - 1)

\* The three resolutions the specification gives as examples.
Examples ==
    /\ (importer.name = "a.b.c" /\ ~importer.is_package /\ target = "x" /\ import_level = 1)
          => resolved = "a.b.x"
    /\ (importer.name = "a.b.c" /\ ~importer.is_package /\ target = "x" /\ import_level = 2)
          => resolved = "a.x"
    /\ (importer.name = "a.b" /\ importer.is_package /\ target = "x" /\ import_level = 1)
          => resolved = "a.b.x"

\* C20: level 0 returns the target unchanged; at level N >= 1 the result is
\* the importer's own package with exactly N-1 trailing components removed,
\* followed by the target's segments.
C20_RelativeResolution ==
    Resolved =>
        /\ import_level = 0 => resolved = target
        /\ import_level >= 1 =>
              /\ Len(OwnPackage) >= import_level - 1
              /\ Segments(resolved) =
                    SubSeq(OwnPackage, 1, Len(OwnPackage) - (import_level - 1))
                    \o Segments(target)
        /\ Examples

\* C20 as it holds: at level N >= 1 the components removed are N-1, or all
\* of the own package when it has fewer than N-1.
C20_RelativeResolutionClamped ==
    Resolved =>
        /\ import_level = 0 => resolved = target
        /\ import_level >= 1 =>
              Segments(resolved) =
                  SubSeq(OwnPackage, 1,
                         Len(OwnPackage) - Min(import_level - 1, Len(OwnPackage)))
                  \o Segments(target)
        /\ Examples

\* "from ....x import y" in module a.b.c has been resolved: three levels to
\* climb above the package a.b, which has two components.
C20_Witness ==
    /\ Resolved
    /\ importer.name = "a.b.c" /\ ~importer.is_package
    /\ target = "x" /\ import_level = 4
    /\ resolved = "x"

\* The import map analyze_module makes of module i's file, before the
\* augmentation pass.
Analysed(i) == analyze_module(index.modules[i], contents).imports

\* The <<target, symbol>> pairs of an import map.
Pairs(imports) == UNION {{<<t, s>> : s \in imports[t]} : t \in DOMAIN imports}

\* The submodule a concrete symbol s of target t names, if it is indexed.
Submodules(pairs) ==
    {p[1] \o "." \o p[2] : p \in {q \in pairs : q[2] # None}} \cap Modules

\* The importers the reverse graph holds for (target, symbol).
ReverseOf(t, s) == get(get(reverse_imports, t, <<>>), s, {})

\* C21: after build_module_data every recorded (M, s) with M.s an indexed
\* module gives the importer a whole-module import of M.s, in its import map
\* and in the reverse graph; the recorded entries are all kept, and nothing
\* else is added.
C21_AugmentationAddsWholeModule ==
    \A i \in Modules :
        LET recorded  == Pairs(Analysed(i))
            augmented == Pairs(module_data[i].imports)
        IN /\ \A sub \in Submodules(augmented) :
                 None \in ImportsOf(i, sub) /\ i \in ReverseOf(sub, None)
           /\ recorded \subseteq augmented
           /\ augmented = recorded \cup {<<sub, None>> : sub \in Submodules(recorded)}

\* The index is built with app.service doing "from app import util" (app.util
\* is indexed) and tests.app.test_service doing "from app.service import
\* get_answer" (app.service.get_answer is no module).
C21_Witness ==
    /\ pc = "idle"
    /\ {"app.service", "tests.app.test_service", "app.util"} \subseteq Modules
    /\ <<"app", "util">> \in Pairs(Analysed("app.service"))
    /\ <<"app.util", None>> \notin Pairs(Analysed("app.service"))
    /\ "app.service" \in ReverseOf("app.util", None)
    /\ <<"app.service", "get_answer">> \in Pairs(module_data["tests.app.test_service"].imports)
    /\ "app.service.get_answer" \notin DOMAIN module_data["tests.app.test_service"].imports

\* Every target and every symbol of the import maps and of the reverse graph.
Targets ==
    DOMAIN reverse_imports \cup UNION {DOMAIN module_data[d].imports : d \in Modules}
Symbols ==
    UNION {UNION {module_data[d].imports[t] : t \in DOMAIN module_data[d].imports} :
              d \in Modules}
    \cup UNION {DOMAIN reverse_imports[t] : t \in DOMAIN reverse_imports}
    \cup {None}

\* The reverse graph holds D for (M, s) exactly when D's import set for M
\* holds s, and it names indexed modules only.
ExactInversion ==
    /\ \A t \in Targets : \A s \in Symbols : \A d \in Modules :
          d \in ReverseOf(t, s) <=> s \in ImportsOf(d, t)
    /\ \A t \in DOMAIN reverse_imports : \A s \in DOMAIN reverse_imports[t] :
          reverse_imports[t][s] \subseteq Modules

\* An expanding step appends an entry for every dependant it looked up.
NoDependantRejected ==
    Expanding =>
        \A d \in dependants(reverse_imports, Head(queue)[1], Head(queue)[2]) :
            \E i \in 1..Len(Appended) : Appended[i][1] = d

\* C22: the reverse graph is the exact inversion of the augmented import
\* maps, and the re-check of the traversal against the dependant's own import
\* set never rejects a dependant the reverse graph returned.
C22_ReverseIsExactInversion ==
    [](pc # "files" => ExactInversion) /\ [][NoDependantRejected]_vars

\* (app.util, sentinel) has been expanded with app.service, an importer by
\* augmentation, and tests.app.test_util, a plain importer, as dependants.
C22_Witness ==
    /\ pc = "graph"
    /\ <<"app.util", None>> \in visited
    /\ ReverseOf("app.util", None) = {"app.service", "tests.app.test_util"}
    /\ \E i, j \in 1..Len(queue) :
          queue[i] = <<"app.service", None>> /\ queue[j] = <<"tests.app.test_util", None>>

\* A Visit step that pops an entry not visited before, of a test module.
PoppingTest ==
    /\ pc = "graph"
    /\ queue # <<>>
    /\ Head(queue) \notin visited
    /\ IsTest(Head(queue)[1])

\* The modules that import something, and only test modules or modules the
\* index does not hold.
ImportOnlyTests ==
    {d \in Modules :
        /\ DOMAIN module_data[d].imports \cap Modules # {}
        /\ \A t \in DOMAIN module_data[d].imports \cap Modules : IsTest(t)}

\* The modules the traversal has an entry for, visited or queued.
Entered == {e[1] : e \in visited \cup Range(queue)}

\* C23: a popped test module is recorded as impacted and nothing is enqueued
\* on its account, so a module that imports only test modules, and is not
\* itself changed, is never entered.
C23_TestModulesAreSinks ==
    /\ [][PoppingTest =>
             /\ impacted_modules' = impacted_modules \cup {Head(queue)[1]}
             /\ queue' = Tail(queue)]_vars
    /\ [](pc \in {"graph", "collect", "done"} =>
             (ImportOnlyTests \ Changed) \cap Entered = {})

\* resolve([src/app/util.py]) has returned with tests.app.test_service
\* impacted, and tests.app.test_util, which imports that test module only,
\* never entered.
C23_Witness ==
    /\ pc = "done"
    /\ changed_paths = <<util_py>>
    /\ "tests.app.test_service" \in impacted_modules
    /\ "tests.app.test_util" \in ImportOnlyTests
    /\ "tests.app.test_service" \in DOMAIN module_data["tests.app.test_util"].imports
    /\ test_util_py \notin Range(result)

\* The pairs a traversal may visit: an indexed module with the sentinel or
\* with one of its own exports.
OwnPairs ==
    UNION {{<<m, x>> : x \in module_data[m].exports \cup {None}} : m \in Modules}

\* The number of exports plus one, summed over the modules of S.
RECURSIVE PairBound(_)
PairBound(S) ==
    IF S = {} THEN 0
    ELSE LET m == CHOOSE x \in S : TRUE
         IN Cardinality(module_data[m].exports) + 1 + PairBound(S \ {m})

\* A loop iteration either skips a visited pair, changing nothing but the
\* queue, or visits the popped pair, which was not visited before.
VisitsOnce ==
    (pc = "graph" /\ pc' = "graph" /\ queue # <<>>) =>
        IF Head(queue) \in visited
        THEN visited' = visited /\ impacted_modules' = impacted_modules
                /\ queue' = Tail(queue)
        ELSE visited' = visited \cup {Head(queue)}

\* C24: every visited pair is (m, s) with m an indexed module and s the
\* sentinel or one of m's own exports, so the visited set holds at most the
\* sum over the modules of (export count + 1) pairs, and every pair is
\* expanded at most once.
C24_VisitedPairsBounded ==
    /\ [](visited \cup Range(queue) \subseteq OwnPairs)
    /\ [](Cardinality(visited) <= PairBound(Modules))
    /\ [][VisitsOnce]_vars

\* resolve([src/app/util.py]) has returned with app.util visited for its
\* export and for the sentinel, and app.service, which has "from .util
\* import adjust", visited for the name it imported.
C24_Witness ==
    /\ pc = "done"
    /\ changed_paths = <<util_py>>
    /\ {<<"app.util", "adjust">>, <<"app.util", None>>, <<"app.service", "adjust">>}
          \subseteq visited
    /\ "adjust" \in module_data["app.service"].exports

\* The changed paths the index does not hold.
Unindexed == Range(changed_paths) \ Indexed

\* The threshold a score is held against: the configured one, at least 1.
Threshold ==
    IF config.tokens.fallback_score < 1 THEN 1 ELSE config.tokens.fallback_score

\* C25: a changed path that is not in by_path seeds nothing, the seeded
\* queue holds entries of the modules of the indexed changed paths only; its
\* tokens are still matched by the fallback: a test module that reaches the
\* threshold against it and shares a directory token with it is selected.
C25_UnindexedPathStillMatched ==
    /\ [](JustSeeded => {queue[i][1] : i \in 1..Len(queue)} = Changed)
    /\ [][FallbackStep =>
             \A t \in Tests : \A c \in Unindexed :
                 (SharedLength(t, c) >= Threshold /\ SharesDirectory(t, c))
                    => t \in impacted_modules']_vars

\* resolve([billing/notes.txt]) has returned tests/billing/test_invoices.py
\* with nothing seeded or visited: notes.txt is not indexed.
C25_Witness ==
    /\ pc = "done"
    /\ changed_paths = <<notes_txt>>
    /\ Unindexed = {notes_txt}
    /\ visited = {}
    /\ result = <<test_invoices_py>>

\* The test modules the traversal visited, and the test modules that reach
\* the threshold against a changed path and share a directory token with one.
GraphTests == {e[1] : e \in visited} \cap Tests

FallbackTests ==
    {t \in Tests :
        /\ \E c \in Range(changed_paths) : SharedLength(t, c) >= Threshold
        /\ \E c \in Range(changed_paths) : SharesDirectory(t, c)}

\* C26: the paths resolve returns are the paths of the graph-impacted test
\* modules and of the fallback-selected test modules together, the fallback
\* evaluated whatever the graph found; every returned path is the path of an
\* indexed module that is a test file.
C26_ResultIsUnion ==
    pc = "done" =>
        /\ Range(result) = {PathOf(t) : t \in GraphTests \cup FallbackTests}
        /\ \A p \in Range(result) :
              /\ p \in Indexed
              /\ index.modules[index.by_path[p]].path = p
              /\ is_test_file(config.naming, p, config.root, config.python_suffixes) = TRUE

\* A call has returned a graph hit together with a test module only the
\* fallback selected.
C26_Witness ==
    /\ pc = "done"
    /\ GraphTests # {}
    /\ FallbackTests \ GraphTests # {}
    /\ Range(result) = {PathOf(t) : t \in GraphTests \cup FallbackTests}

\* C27: resolve leaves the index, the module data, the reverse graph and the
\* token tables as they were built, so the result of every call, whatever
\* calls came before it, is the result a fresh resolver over the same index
\* gives for the call's changed paths.
C27_ResolveKeepsWhatIsBuilt ==
    /\ [][pc # "files" => UNCHANGED built]_vars
    /\ [](pc # "files" =>
             /\ reverse_imports = build_reverse(module_data)
             /\ test_tokens = init_test_tokens(config, index)
             /\ test_dir_tokens = init_test_dir_tokens(config, test_tokens))
    /\ [](pc = "done" => result = ResultOver(index, module_data, Range(changed_paths)))

\* A call has returned a test found through the graph by expanding a
\* concrete symbol, on a resolver whose tables are as they were built.
C27_Witness ==
    /\ pc = "done"
    /\ \E e \in visited : e[2] # None /\ ~IsTest(e[1]) /\ ReverseOf(e[1], e[2]) # {}
    /\ result # <<>>
    /\ reverse_imports = build_reverse(module_data)

\* The test modules that share no token length with any changed path.
ScoreZero == {t \in Tests : \A c \in Range(changed_paths) : SharedLength(t, c) = 0}

\* C28: a configured fallback score of zero or less acts as a threshold of
\* 1: the fallback then selects exactly the test modules with a score of at
\* least 1 and a shared directory token; under every configuration a test
\* module of score 0 is never fallback-selected; resolve([]) returns [].
C28_ThresholdAtLeastOne ==
    /\ [][FallbackStep =>
             /\ (ScoreZero \ impacted_modules) \cap impacted_modules' = {}
             /\ config.tokens.fallback_score <= 0 =>
                   \A t \in Tests \ impacted_modules :
                       t \in impacted_modules'
                          <=> /\ \E c \in Range(changed_paths) : SharedLength(t, c) >= 1
                              /\ \E c \in Range(changed_paths) : SharesDirectory(t, c)]_vars
    /\ [](pc = "done" /\ changed_paths = <<>> => result = <<>>)

\* resolve([.github/deploy.py]) has returned nothing under a fallback score
\* of zero or less: .github/tests/test_hooks.py shares the empty directory
\* token with the changed file, and a score of 0.
C28_Witness ==
    /\ pc = "done"
    /\ config.tokens.fallback_score <= 0
    /\ changed_paths = <<deploy_py>>
    /\ index.by_path[test_hooks_py] \in ScoreZero
    /\ SharesDirectory(index.by_path[test_hooks_py], deploy_py)
    /\ result = <<>>


====
